---- MODULE Spec2Model ----
(***************************************************************************)
(* The notebook 3_Training_Neural_Networks.ipynb as a state machine: its   *)
(* code cells run in their written order, the training cell statement by   *)
(* statement.  The framework's numerics are abstracted to integers: a      *)
(* parameter is an integer in thousandths, a batch b pulls parameter i     *)
(* towards Target(b, i), the loss is the L1 distance and its gradient the  *)
(* sign of the difference.                                                 *)
(***************************************************************************)
EXTENDS Integers, Sequences, FiniteSets

\* ---------------------------------------------------------------- bounds
NumBatches == 2
NumParams == 2

\* ------------------------------------------------------ program constants
\* epochs = 5
Epochs == 5
\* optim.SGD(model.parameters(), lr=0.01), in thousandths
LrWalk == 10
\* optim.SGD(model.parameters(), lr=0.003), in thousandths
LrLoop == 3

VARIABLES
    pc,            \* the statement about to run
    model,         \* the model the name `model` is bound to (0: unbound)
    criterion,     \* "none" | "CE" | "NLL"
    optimizer,     \* [m |-> model whose parameters it holds, lr |-> rate]
    params,        \* model id -> <<>> (not built) or its parameter entries
    grads,         \* model id -> per entry <<>> (None) or <<g>>
    cur,           \* the batch bound to images, labels (0: none)
    output,        \* [kind, m, b]: what model(images) returned
    loss,          \* [val, m, b]: the scalar loss and the graph behind it
    running_loss,  \* the epoch's accumulator
    epoch,         \* epochs started by the training loop
    order,         \* the order this traversal of trainloader produces
    pos,           \* batches this traversal has produced so far
    printed,       \* what the training cell has printed
    errors,        \* the cells that raised
    setToNone,     \* framework: zero_grad() empties the buffers (or zeroes)
    opLog,         \* history: framework calls of the steps of this epoch
    stepped,       \* history: batches whose step completed, this epoch
    added,         \* history: loss values added to running_loss, this epoch
    pre,           \* history: the parameters when the current step began
    totalSteps,    \* history: optimizer.step() calls completed by the loop
    snap,          \* history: the loop's progress when a step raised
    clearedBefore, \* history: the buffers the call before left, if it
                   \* and the latest call were both clears
    twin,          \* a second run of the training cell: the same starting
                   \* parameters and batches, a framework nothing has used
    epochs,        \* the value the training cell binds to epochs
    nonfinite,     \* which of loss, grads, params, running_loss, printed
                   \* hold a value that is not finite
    pairings,      \* history: the <<output kind, criterion>> pairs of
                   \* the loss computations so far
    sinceClear     \* history: gradients the backward passes added to the
                   \* current model's buffers since they were last cleared

vars == <<pc, model, criterion, optimizer, params, grads, cur, output, loss,
          running_loss, epoch, order, pos, printed, errors, setToNone,
          opLog, stepped, added, pre, totalSteps, snap, sinceClear,
          clearedBefore, twin, epochs, nonfinite, pairings>>

ModelIds == 1..3
ParamIdx == 1..NumParams
Batches == 1..NumBatches
None == <<>>

\* ---------------------------------------------------------- pure helpers
Abs(x) == IF x < 0 THEN -x ELSE x

Sgn(x) == IF x > 0 THEN 1 ELSE IF x < 0 THEN -1 ELSE 0

RECURSIVE SumSeq(_)
SumSeq(s) == IF s = <<>> THEN 0 ELSE Head(s) + SumSeq(Tail(s))

\* len(trainloader)
LenTrainloader == NumBatches

\* The orders a shuffling loader can produce: every batch exactly once.
Orders == {s \in [Batches -> Batches] : \A b \in Batches : \E k \in Batches : s[k] = b}

\* nn.Linear's random initialisation: one of a few starting points.
InitParamChoices == {[i \in ParamIdx |-> 0], [i \in ParamIdx |-> 3 * i]}

\* The value batch b pulls parameter entry i towards.
Target(b, i) == 3 * (b + i) - 6

\* The mean log-probability the output under p gives the labels of batch b:
\* the logarithm of a probability, never above zero.
LogProb(p, b) == -SumSeq([i \in ParamIdx |-> Abs(p[i] - Target(b, i))])

\* Mutant of LossValue: the negation is left out.
LossValueUnnegated(p, b) == LogProb(p, b)

\* criterion(model(images), labels): the negated mean log-probability of
\* the labels, the scalar the batch costs under p.
LossValue(p, b) == -LogProb(p, b)

\* d loss / d p[i] for batch b.
Gradient(p, b) == [i \in ParamIdx |-> Sgn(p[i] - Target(b, i))]


\* Mutant of ZeroGrad: the two branches are swapped, an empty buffer is
\* allocated and a filled one dropped.
ZeroGradSwapped(g, toNone) ==
    [i \in ParamIdx |-> IF g[i] = None THEN <<0>> ELSE None]

\* Mutant of ZeroGrad: the clear is left out.
ZeroGradOmitted(g, toNone) == g

\* optimizer.zero_grad(): every buffer that exists is emptied (set_to_none)
\* or zeroed in place, as the framework's version has it.
ZeroGrad(g, toNone) ==
    [i \in ParamIdx |-> IF g[i] = None \/ toNone THEN None ELSE <<0>>]

\* Mutant of Accumulate: the new gradient replaces what the buffer held.
AccumulateOverwrite(g, d) == [i \in ParamIdx |-> <<d[i]>>]

\* loss.backward(): the gradient d is added onto what each buffer holds.
Accumulate(g, d) ==
    [i \in ParamIdx |-> IF g[i] = None THEN <<d[i]>> ELSE <<g[i][1] + d[i]>>]

\* Mutant of SGDStep: the step climbs the gradient.
SGDStepAscent(p, g, lr) ==
    [i \in ParamIdx |-> IF g[i] = None THEN p[i] ELSE p[i] + lr * g[i][1]]

\* optimizer.step() of optim.SGD with only a learning rate: entries whose
\* buffer is empty are skipped.
SGDStep(p, g, lr) ==
    [i \in ParamIdx |-> IF g[i] = None THEN p[i] ELSE p[i] - lr * g[i][1]]

\* What a model's last layer makes of its output.
OutputKind(m) == IF m = 1 THEN "raw" ELSE "logp"

NoGrads == [i \in ParamIdx |-> None]
NoOptimizer == [m |-> 0, lr |-> 0]
NoTensor == [val |-> 0, m |-> 0, b |-> 0]
NoOutput == [kind |-> "none", m |-> 0, b |-> 0]
NoSnap == [op |-> "none", epoch |-> 0, pos |-> 0, printed |-> <<>>,
           steps |-> 0, log |-> <<>>, params |-> None]

\* The models some name still leads to: the bound model, the optimizer's
\* parameters and the graphs behind output and loss.
Reachable(mod, opt, out, los) == {mod, opt.m, out.m, los.m}

\* Rebinding a name drops a reference: the tensors of a model no name leads
\* to any more are freed.
Collect(f, live, freed) == [m \in ModelIds |-> IF m \in live THEN f[m] ELSE freed]

\* model(images)
Forward(m, b) == [kind |-> OutputKind(m), m |-> m, b |-> b]

\* criterion(output, labels)
Criterion(out) == [val |-> LossValue(params[out.m], out.b), m |-> out.m, b |-> out.b]

\* The second run before its training cell has started.
NoTwin == [p |-> None, g |-> NoGrads, run |-> 0, losses |-> <<>>, out |-> <<>>]

\* The second run's training step on batch b: clear, forward and loss,
\* backward, update, accumulate; its framework has the other zero_grad
\* convention.
TwinStep(t, b) ==
    LET g1 == Accumulate(ZeroGrad(t.g, ~setToNone), Gradient(t.p, b))
    IN  [p |-> SGDStep(t.p, g1, LrLoop),
         g |-> g1,
         run |-> t.run + LossValue(t.p, b),
         losses |-> Append(t.losses, LossValue(t.p, b)),
         out |-> t.out]

\* The second run's running_loss = 0 at the top of an epoch.
TwinEpoch(t) == [t EXCEPT !.run = 0, !.losses = <<>>]

\* The second run's report at the end of an epoch.
TwinPrint(t) == [t EXCEPT !.out = Append(@, [num |-> t.run, den |-> LenTrainloader])]

\* Mutant of Taint: the result is made finite whatever went in.
TaintSanitised(nf, srcs, dst) == nf \ {dst}

\* Floating point: a result computed from a value that is not finite is not
\* finite, and one computed from finite values replaces what dst held.
Taint(nf, srcs, dst) == IF srcs \cap nf # {} THEN nf \cup {dst} ELSE nf \ {dst}

\* Mutant of Item: the scalar is computed anew from the parameters as they
\* are when it is read.
ItemRecomputed(t) == LossValue(params[t.m], t.b)

\* loss.item(): the number the tensor was given when it was computed.
Item(t) == t.val

\* The latest framework call a log records.
LastCall(log) == IF log = <<>> THEN "none" ELSE log[Len(log)]

\* ------------------------------------------------------------------ Init
Start(e) ==
    /\ pc = "c2"
    /\ model = 0
    /\ criterion = "none"
    /\ optimizer = NoOptimizer
    /\ params = [m \in ModelIds |-> None]
    /\ grads = [m \in ModelIds |-> NoGrads]
    /\ cur = 0
    /\ output = NoOutput
    /\ loss = NoTensor
    /\ running_loss = 0
    /\ epoch = 0
    /\ order = <<>>
    /\ pos = 0
    /\ printed = <<>>
    /\ errors = {}
    /\ setToNone \in BOOLEAN
    /\ opLog = <<>>
    /\ stepped = <<>>
    /\ added = <<>>
    /\ pre = None
    /\ totalSteps = 0
    /\ snap = NoSnap
    /\ sinceClear = <<>>
    /\ clearedBefore = <<>>
    /\ twin = NoTwin
    /\ epochs = e
    /\ nonfinite = {}
    /\ pairings = {}

\* The notebook as written: epochs = 5.
Init == Start(Epochs)

history == <<opLog, stepped, added, pre, totalSteps, snap>>
BackwardArg == Gradient(params[loss.m], loss.b)
loopState == <<running_loss, epoch, order, pos, printed>>

\* --------------------------------------------- the cells before the loop
\* Cell 2: a network that returns raw scores, the cross-entropy loss, one
\* batch, the forward pass and the loss.
CellCrossEntropy ==
    /\ pc = "c2"
    /\ \E p0 \in InitParamChoices, b \in Batches :
          /\ params' = [params EXCEPT ![1] = p0]
          /\ cur' = b
          /\ output' = Forward(1, b)
          /\ loss' = [val |-> LossValue(p0, b), m |-> 1, b |-> b]
    /\ model' = 1
    /\ criterion' = "CE"
    /\ pc' = "cEx"
    /\ UNCHANGED <<optimizer, grads, loopState, errors, setToNone, history, sinceClear>>
    /\ UNCHANGED clearedBefore
    /\ UNCHANGED twin
    /\ UNCHANGED epochs
    /\ UNCHANGED nonfinite
    /\ pairings' = pairings \cup {<<output'.kind, criterion'>>}

\* Mutant of CellExercise: only the statement that raises is lost, the rest
\* of the cell runs: the new criterion, a batch, the forward pass, the loss.
CellExerciseRunsOn ==
    /\ pc = "cEx"
    /\ errors' = errors \cup {"cEx"}
    /\ criterion' = "NLL"
    /\ \E b \in Batches :
          /\ cur' = b
          /\ output' = Forward(model, b)
          /\ loss' = Criterion(Forward(model, b))
    /\ pairings' = pairings \cup {<<output'.kind, criterion'>>}
    /\ pc' = "c9"
    /\ UNCHANGED <<model, optimizer, params, grads, loopState, setToNone,
                   history, sinceClear, clearedBefore, twin, epochs, nonfinite>>

\* The exercise cell: nn.relu() raises while the arguments of nn.Sequential
\* are evaluated, before any name is bound.
CellExercise ==
    /\ pc = "cEx"
    /\ errors' = errors \cup {"cEx"}
    /\ pc' = "c9"
    /\ UNCHANGED <<model, criterion, optimizer, params, grads, cur, output,
                   loss, loopState, setToNone, history, sinceClear>>
    /\ UNCHANGED clearedBefore
    /\ UNCHANGED twin
    /\ UNCHANGED epochs
    /\ UNCHANGED nonfinite
    /\ UNCHANGED pairings

\* Cell 9: a network with a log-softmax output, the negative log-likelihood
\* loss, one batch, the forward pass and the loss.
CellLogSoftmax ==
    /\ pc = "c9"
    /\ \E p0 \in InitParamChoices, b \in Batches :
          /\ params' = Collect([params EXCEPT ![2] = p0], {2, optimizer.m}, None)
          /\ grads' = Collect(grads, {2, optimizer.m}, NoGrads)
          /\ cur' = b
          /\ output' = Forward(2, b)
          /\ loss' = [val |-> LossValue(p0, b), m |-> 2, b |-> b]
    /\ model' = 2
    /\ criterion' = "NLL"
    /\ pc' = "c10"
    /\ UNCHANGED <<optimizer, loopState, errors, setToNone, history>>
    /\ sinceClear' = <<>>
    /\ UNCHANGED clearedBefore
    /\ UNCHANGED twin
    /\ UNCHANGED epochs
    /\ UNCHANGED nonfinite
    /\ pairings' = pairings \cup {<<output'.kind, criterion'>>}

\* Cell 10: loss.backward()
CellBackward ==
    /\ pc = "c10"
    /\ grads' = [grads EXCEPT ![loss.m] =
                    Accumulate(grads[loss.m], BackwardArg)]
    /\ pc' = "c11"
    /\ UNCHANGED <<model, criterion, optimizer, params, cur, output, loss,
                   loopState, errors, setToNone, history>>
    /\ sinceClear' = Append(sinceClear, BackwardArg)
    /\ clearedBefore' = <<>>
    /\ UNCHANGED twin
    /\ UNCHANGED epochs
    /\ UNCHANGED nonfinite
    /\ UNCHANGED pairings

\* Cell 11: optimizer = optim.SGD(model.parameters(), lr=0.01)
CellOptimizer ==
    /\ pc = "c11"
    /\ optimizer' = [m |-> model, lr |-> LrWalk]
    /\ pc' = "c12"
    /\ UNCHANGED <<model, criterion, params, grads, cur, output, loss,
                   loopState, errors, setToNone, history, sinceClear>>
    /\ UNCHANGED clearedBefore
    /\ UNCHANGED twin
    /\ UNCHANGED epochs
    /\ UNCHANGED nonfinite
    /\ UNCHANGED pairings

\* ------------------------------------- the single training step, cells 12
\* Cell 12, first lines: one batch from a fresh iterator.
WalkData ==
    /\ pc = "c12"
    /\ \E b \in Batches : cur' = b
    /\ opLog' = <<>>
    /\ pre' = params[optimizer.m]
    /\ pc' = "s_zero"
    /\ UNCHANGED <<model, criterion, optimizer, params, grads, output, loss,
                   loopState, errors, setToNone, stepped, added, totalSteps, snap, sinceClear>>
    /\ UNCHANGED clearedBefore
    /\ UNCHANGED twin
    /\ UNCHANGED epochs
    /\ UNCHANGED nonfinite
    /\ UNCHANGED pairings

\* optimizer.zero_grad()
WalkZeroGrad ==
    /\ pc = "s_zero"
    /\ grads' = [grads EXCEPT ![optimizer.m] = ZeroGrad(grads[optimizer.m], setToNone)]
    /\ opLog' = Append(opLog, "zero_grad")
    /\ pc' = "s_fwd"
    /\ UNCHANGED <<model, criterion, optimizer, params, cur, output, loss,
                   loopState, errors, setToNone, stepped, added, pre, totalSteps, snap>>
    /\ sinceClear' = <<>>
    /\ clearedBefore' = IF LastCall(opLog) = "zero_grad" THEN <<grads[optimizer.m]>> ELSE <<>>
    /\ UNCHANGED twin
    /\ UNCHANGED epochs
    /\ UNCHANGED nonfinite
    /\ UNCHANGED pairings

\* output = model(images)
WalkForward ==
    /\ pc = "s_fwd"
    /\ output' = Forward(model, cur)
    /\ opLog' = Append(opLog, "forward")
    /\ pc' = "s_loss"
    /\ UNCHANGED <<model, criterion, optimizer, params, grads, cur, loss,
                   loopState, errors, setToNone, stepped, added, pre, totalSteps, snap, sinceClear>>
    /\ UNCHANGED clearedBefore
    /\ UNCHANGED twin
    /\ UNCHANGED epochs
    /\ UNCHANGED nonfinite
    /\ UNCHANGED pairings

\* loss = criterion(output, labels)
WalkLoss ==
    /\ pc = "s_loss"
    /\ loss' = Criterion(output)
    /\ opLog' = Append(opLog, "loss")
    /\ pc' = "s_bwd"
    /\ UNCHANGED <<model, criterion, optimizer, params, grads, cur, output,
                   loopState, errors, setToNone, stepped, added, pre, totalSteps, snap, sinceClear>>
    /\ UNCHANGED clearedBefore
    /\ UNCHANGED twin
    /\ UNCHANGED epochs
    /\ UNCHANGED nonfinite
    /\ pairings' = pairings \cup {<<output.kind, criterion>>}

\* loss.backward()
WalkBackward ==
    /\ pc = "s_bwd"
    /\ grads' = [grads EXCEPT ![loss.m] =
                    Accumulate(grads[loss.m], BackwardArg)]
    /\ opLog' = Append(opLog, "backward")
    /\ pc' = "c12b"
    /\ UNCHANGED <<model, criterion, optimizer, params, cur, output, loss,
                   loopState, errors, setToNone, stepped, added, pre, totalSteps, snap>>
    /\ sinceClear' = Append(sinceClear, BackwardArg)
    /\ clearedBefore' = <<>>
    /\ UNCHANGED twin
    /\ UNCHANGED epochs
    /\ UNCHANGED nonfinite
    /\ UNCHANGED pairings

\* The next cell: optimizer.step()
WalkStep ==
    /\ pc = "c12b"
    /\ params' = [params EXCEPT ![optimizer.m] =
                    SGDStep(params[optimizer.m], grads[optimizer.m], optimizer.lr)]
    /\ opLog' = Append(opLog, "step")
    /\ pc' = "t_build"
    /\ UNCHANGED <<model, criterion, optimizer, grads, cur, output, loss,
                   loopState, errors, setToNone, stepped, added, pre, totalSteps, snap, sinceClear>>
    /\ UNCHANGED clearedBefore
    /\ UNCHANGED twin
    /\ UNCHANGED epochs
    /\ UNCHANGED nonfinite
    /\ UNCHANGED pairings

\* --------------------------------------------------- the training cell, 13
\* Mutant of AfterOp: the update is taken before the backward pass.
AfterOpStepFirst(p) ==
    CASE p = "t_zero" -> "t_fwd"
      [] p = "t_fwd" -> "t_loss"
      [] p = "t_loss" -> "t_step"
      [] p = "t_step" -> "t_bwd"
      [] p = "t_bwd" -> "t_acc"
      [] p = "t_acc" -> "t_next"

\* The statement that follows each statement of the inner loop's body.
AfterOp(p) ==
    CASE p = "t_zero" -> "t_fwd"
      [] p = "t_fwd" -> "t_loss"
      [] p = "t_loss" -> "t_bwd"
      [] p = "t_bwd" -> "t_step"
      [] p = "t_step" -> "t_acc"
      [] p = "t_acc" -> "t_next"

\* Mutant of OnRaise: the exception is swallowed and the loop goes on.
OnRaiseContinue == "t_next"

\* Where control goes when a statement of the cell raises: nothing catches
\* it, the cell ends and the next cell is the following one to run.
OnRaise == "c14"

\* The cell that runs once the training cell has ended.
AfterCell == "c14"

\* Mutant of MoreEpochs: the body runs once before the count is looked at.
MoreEpochsAtLeastOnce(e) == e = 0 \/ e < epochs

\* Mutant of MoreEpochs: the loop stops one epoch early.
MoreEpochsShort(e) == e < epochs - 1

\* range(epochs): whether another epoch follows e epochs.
MoreEpochs(e) == e < epochs

\* Mutant of ResetRunningLoss: the accumulator carries over.
KeepRunningLoss(r) == r

\* running_loss = 0 at the top of each epoch.
ResetRunningLoss(r) == 0

\* Mutant of Produced: a fresh iterator each time, always its first batch.
ProducedFirst(ord, p) == ord[1]

\* The batch the iterator yields after it has yielded p batches.
Produced(ord, p) == ord[p + 1]

\* Mutant of OnExhausted: the else branch is skipped.
OnExhaustedSilent == "t_epoch"

\* The for statement's else branch: where an exhausted iterator leads.
OnExhausted == "t_print"

\* Mutant of LoopBuild: the optimizer of the earlier cell is kept.
LoopBuildStaleOptimizer ==
    /\ pc = "t_build"
    /\ \E p0 \in InitParamChoices : params' = [params EXCEPT ![3] = p0]
    /\ model' = 3
    /\ criterion' = "NLL"
    /\ optimizer' = optimizer
    /\ epoch' = 0
    /\ pc' = "t_epoch"
    /\ UNCHANGED <<grads, cur, output, loss, running_loss, order, pos, printed,
                   errors, setToNone, history>>
    /\ sinceClear' = <<>>
    /\ UNCHANGED clearedBefore
    /\ twin' = [NoTwin EXCEPT !.p = params'[3]]
    /\ UNCHANGED epochs
    /\ nonfinite' = {}
    /\ UNCHANGED pairings

\* The model, the criterion, the optimizer and the epoch count.
LoopBuild ==
    /\ pc = "t_build"
    /\ \E p0 \in InitParamChoices : params' = [params EXCEPT ![3] = p0]
    /\ model' = 3
    /\ criterion' = "NLL"
    /\ optimizer' = [m |-> 3, lr |-> LrLoop]
    /\ epoch' = 0
    /\ pc' = "t_epoch"
    /\ UNCHANGED <<grads, cur, output, loss, running_loss, order, pos, printed,
                   errors, setToNone, history>>
    /\ sinceClear' = <<>>
    /\ UNCHANGED clearedBefore
    /\ twin' = [NoTwin EXCEPT !.p = params'[3]]
    /\ UNCHANGED epochs
    /\ nonfinite' = {}
    /\ UNCHANGED pairings

\* Mutant of EpochStart: the model is built anew inside the epoch loop.
EpochStartRebuild ==
    /\ pc = "t_epoch"
    /\ \/ /\ MoreEpochs(epoch)
          /\ epoch' = epoch + 1
          /\ running_loss' = ResetRunningLoss(running_loss)
          /\ \E o \in Orders : order' = o
          /\ \E p0 \in InitParamChoices : params' = [params EXCEPT ![model] = p0]
          /\ pos' = 0
          /\ opLog' = <<>>
          /\ stepped' = <<>>
          /\ added' = <<>>
          /\ pc' = "t_next"
          /\ UNCHANGED <<printed, pre, totalSteps, snap>>
       \/ /\ ~MoreEpochs(epoch)
          /\ pc' = AfterCell
          /\ UNCHANGED <<loopState, history, params>>
    /\ UNCHANGED <<model, criterion, optimizer, grads, cur, output,
                   loss, errors, setToNone, sinceClear>>
    /\ UNCHANGED clearedBefore
    /\ twin' = IF MoreEpochs(epoch) THEN TwinEpoch(twin) ELSE twin
    /\ UNCHANGED epochs
    /\ nonfinite' = IF MoreEpochs(epoch) THEN nonfinite \ {"running_loss"} ELSE nonfinite
    /\ UNCHANGED pairings

\* for _ in range(epochs): running_loss = 0, and the inner for statement
\* asks trainloader for a new iterator; after the last epoch the cell ends.
EpochStart ==
    /\ pc = "t_epoch"
    /\ \/ /\ MoreEpochs(epoch)
          /\ epoch' = epoch + 1
          /\ running_loss' = ResetRunningLoss(running_loss)
          /\ \E o \in Orders : order' = o
          /\ pos' = 0
          /\ opLog' = <<>>
          /\ stepped' = <<>>
          /\ added' = <<>>
          /\ pc' = "t_next"
          /\ UNCHANGED <<printed, pre, totalSteps, snap>>
       \/ /\ ~MoreEpochs(epoch)
          /\ pc' = AfterCell
          /\ UNCHANGED <<loopState, history>>
    /\ UNCHANGED <<model, criterion, optimizer, params, grads, cur, output,
                   loss, errors, setToNone, sinceClear>>
    /\ UNCHANGED clearedBefore
    /\ twin' = IF MoreEpochs(epoch) THEN TwinEpoch(twin) ELSE twin
    /\ UNCHANGED epochs
    /\ nonfinite' = IF MoreEpochs(epoch) THEN nonfinite \ {"running_loss"} ELSE nonfinite
    /\ UNCHANGED pairings

\* for images, labels in trainloader: the next batch, or the else branch
\* once the iterator is exhausted.
NextBatch ==
    /\ pc = "t_next"
    /\ \/ /\ pos < Len(order)
          /\ cur' = Produced(order, pos)
          /\ pos' = pos + 1
          /\ pre' = params[model]
          /\ pc' = "t_zero"
       \/ /\ pos >= Len(order)
          /\ pc' = OnExhausted
          /\ UNCHANGED <<cur, pos, pre>>
    /\ UNCHANGED <<model, criterion, optimizer, params, grads, output, loss,
                   running_loss, epoch, order, printed, errors, setToNone,
                   opLog, stepped, added, totalSteps, snap, sinceClear>>
    /\ UNCHANGED clearedBefore
    /\ twin' = IF pos < Len(order) THEN TwinStep(twin, Produced(order, pos)) ELSE twin
    /\ UNCHANGED epochs
    /\ UNCHANGED nonfinite
    /\ UNCHANGED pairings

\* optimizer.zero_grad()
LoopZeroGrad ==
    /\ pc = "t_zero"
    /\ grads' = [grads EXCEPT ![optimizer.m] = ZeroGrad(grads[optimizer.m], setToNone)]
    /\ opLog' = Append(opLog, "zero_grad")
    /\ pc' = AfterOp(pc)
    /\ UNCHANGED <<model, criterion, optimizer, params, cur, output, loss,
                   loopState, errors, setToNone, stepped, added, pre, totalSteps, snap>>
    /\ sinceClear' = <<>>
    /\ clearedBefore' = IF LastCall(opLog) = "zero_grad" THEN <<grads[optimizer.m]>> ELSE <<>>
    /\ UNCHANGED twin
    /\ UNCHANGED epochs
    /\ nonfinite' = nonfinite \ {"grads"}
    /\ UNCHANGED pairings

\* output = model(images)
LoopForward ==
    /\ pc = "t_fwd"
    /\ output' = Forward(model, cur)
    /\ opLog' = Append(opLog, "forward")
    /\ pc' = AfterOp(pc)
    /\ UNCHANGED <<model, criterion, optimizer, params, grads, cur, loss,
                   loopState, errors, setToNone, stepped, added, pre, totalSteps, snap, sinceClear>>
    /\ UNCHANGED clearedBefore
    /\ UNCHANGED twin
    /\ UNCHANGED epochs
    /\ UNCHANGED nonfinite
    /\ UNCHANGED pairings

\* loss = criterion(output, labels)
LoopLoss ==
    /\ pc = "t_loss"
    /\ loss' = Criterion(output)
    /\ params' = Collect(params, Reachable(model, optimizer, output, Criterion(output)), None)
    /\ grads' = Collect(grads, Reachable(model, optimizer, output, Criterion(output)), NoGrads)
    /\ opLog' = Append(opLog, "loss")
    /\ pc' = AfterOp(pc)
    /\ UNCHANGED <<model, criterion, optimizer, cur, output,
                   loopState, errors, setToNone, stepped, added, pre, totalSteps, snap, sinceClear>>
    /\ UNCHANGED clearedBefore
    /\ UNCHANGED twin
    /\ UNCHANGED epochs
    /\ nonfinite' = Taint(nonfinite, {"params"}, "loss")
    /\ pairings' = pairings \cup {<<output.kind, criterion>>}

\* loss.backward()
LoopBackward ==
    /\ pc = "t_bwd"
    /\ grads' = [grads EXCEPT ![loss.m] =
                    Accumulate(grads[loss.m], BackwardArg)]
    /\ opLog' = Append(opLog, "backward")
    /\ pc' = AfterOp(pc)
    /\ UNCHANGED <<model, criterion, optimizer, params, cur, output, loss,
                   loopState, errors, setToNone, stepped, added, pre, totalSteps, snap>>
    /\ sinceClear' = Append(sinceClear, BackwardArg)
    /\ clearedBefore' = <<>>
    /\ UNCHANGED twin
    /\ UNCHANGED epochs
    /\ nonfinite' = Taint(nonfinite, {"loss", "grads"}, "grads")
    /\ UNCHANGED pairings

\* Mutant of LoopStep: the update adds noise of its own to the first entry.
LoopStepNoisy ==
    /\ pc = "t_step"
    /\ \E n \in {0, 1} :
          params' = [params EXCEPT ![optimizer.m] =
                        [SGDStep(params[optimizer.m], grads[optimizer.m], optimizer.lr)
                            EXCEPT ![1] = @ + n]]
    /\ opLog' = Append(opLog, "step")
    /\ stepped' = Append(stepped, cur)
    /\ totalSteps' = totalSteps + 1
    /\ pc' = AfterOp(pc)
    /\ UNCHANGED <<model, criterion, optimizer, grads, cur, output, loss,
                   loopState, errors, setToNone, added, pre, snap, sinceClear>>
    /\ UNCHANGED clearedBefore
    /\ UNCHANGED twin
    /\ UNCHANGED epochs
    /\ nonfinite' = Taint(nonfinite, {"grads", "params"}, "params")
    /\ UNCHANGED pairings

\* Mutant of LoopStep: the update also clears the buffers it has read.
LoopStepClears ==
    /\ pc = "t_step"
    /\ params' = [params EXCEPT ![optimizer.m] =
                    SGDStep(params[optimizer.m], grads[optimizer.m], optimizer.lr)]
    /\ grads' = [grads EXCEPT ![optimizer.m] = ZeroGrad(grads[optimizer.m], setToNone)]
    /\ opLog' = Append(opLog, "step")
    /\ stepped' = Append(stepped, cur)
    /\ totalSteps' = totalSteps + 1
    /\ pc' = AfterOp(pc)
    /\ UNCHANGED <<model, criterion, optimizer, cur, output, loss,
                   loopState, errors, setToNone, added, pre, snap, sinceClear>>
    /\ UNCHANGED clearedBefore
    /\ UNCHANGED twin
    /\ UNCHANGED epochs
    /\ nonfinite' = Taint(nonfinite, {"grads", "params"}, "params")
    /\ UNCHANGED pairings

\* optimizer.step()
LoopStep ==
    /\ pc = "t_step"
    /\ params' = [params EXCEPT ![optimizer.m] =
                    SGDStep(params[optimizer.m], grads[optimizer.m], optimizer.lr)]
    /\ opLog' = Append(opLog, "step")
    /\ stepped' = Append(stepped, cur)
    /\ totalSteps' = totalSteps + 1
    /\ pc' = AfterOp(pc)
    /\ UNCHANGED <<model, criterion, optimizer, grads, cur, output, loss,
                   loopState, errors, setToNone, added, pre, snap, sinceClear>>
    /\ UNCHANGED clearedBefore
    /\ UNCHANGED twin
    /\ UNCHANGED epochs
    /\ nonfinite' = Taint(nonfinite, {"grads", "params"}, "params")
    /\ UNCHANGED pairings

\* running_loss += loss.item()
LoopAccumulate ==
    /\ pc = "t_acc"
    /\ running_loss' = running_loss + Item(loss)
    /\ added' = Append(added, Item(loss))
    /\ pc' = AfterOp(pc)
    /\ UNCHANGED <<model, criterion, optimizer, params, grads, cur, output, loss,
                   epoch, order, pos, printed, errors, setToNone,
                   opLog, stepped, pre, totalSteps, snap, sinceClear>>
    /\ UNCHANGED clearedBefore
    /\ UNCHANGED twin
    /\ UNCHANGED epochs
    /\ nonfinite' = Taint(nonfinite, {"loss", "running_loss"}, "running_loss")
    /\ UNCHANGED pairings

\* else: print(f"Training loss: {running_loss/len(trainloader)}")
PrintLoss ==
    /\ pc = "t_print"
    /\ printed' = Append(printed, [num |-> running_loss, den |-> LenTrainloader])
    /\ pc' = "t_epoch"
    /\ UNCHANGED <<model, criterion, optimizer, params, grads, cur, output, loss,
                   running_loss, epoch, order, pos, errors, setToNone, history, sinceClear>>
    /\ UNCHANGED clearedBefore
    /\ twin' = TwinPrint(twin)
    /\ UNCHANGED epochs
    /\ nonfinite' = Taint(nonfinite, {"running_loss", "printed"}, "printed")
    /\ UNCHANGED pairings

\* The forward pass, the loss, the backward pass or the update raises.
LoopRaise ==
    /\ pc \in {"t_fwd", "t_loss", "t_bwd", "t_step"}
    /\ errors' = errors \cup {"c13"}
    /\ snap' = [op |-> pc, epoch |-> epoch, pos |-> pos, printed |-> printed,
                steps |-> totalSteps, log |-> opLog, params |-> params[model]]
    /\ pc' = OnRaise
    /\ UNCHANGED <<model, criterion, optimizer, params, grads, cur, output, loss,
                   loopState, setToNone, opLog, stepped, added, pre, totalSteps, sinceClear>>
    /\ UNCHANGED clearedBefore
    /\ UNCHANGED twin
    /\ UNCHANGED epochs
    /\ UNCHANGED nonfinite
    /\ UNCHANGED pairings

\* Cell 14: one more batch and a forward pass with gradients turned off.
CellInference ==
    /\ pc = "c14"
    /\ \E b \in Batches : cur' = b
    /\ pc' = "done"
    /\ UNCHANGED <<model, criterion, optimizer, params, grads, output, loss,
                   loopState, errors, setToNone, history, sinceClear>>
    /\ UNCHANGED clearedBefore
    /\ UNCHANGED twin
    /\ UNCHANGED epochs
    /\ UNCHANGED nonfinite
    /\ UNCHANGED pairings

Next ==
    \/ CellCrossEntropy \/ CellExercise \/ CellLogSoftmax \/ CellBackward
    \/ CellOptimizer
    \/ WalkData \/ WalkZeroGrad \/ WalkForward \/ WalkLoss \/ WalkBackward
    \/ WalkStep
    \/ LoopBuild \/ EpochStart \/ NextBatch \/ LoopZeroGrad \/ LoopForward
    \/ LoopLoss \/ LoopBackward \/ LoopStep \/ LoopAccumulate \/ PrintLoss
    \/ LoopRaise \/ CellInference

Spec == Init /\ [][Next]_vars

\* The kernel runs a cell's statements to the end: no step waits forever.
FairSpec == Spec /\ WF_vars(Next)

\* ------------------------------------------- other values of the literal
\* The notebook with another integer in place of the 5 of epochs = 5,
\* non-positive ones included.
MaxConfigEpochs == 2

ConfigEpochs == (-1)..MaxConfigEpochs

ConfigInit == \E e \in ConfigEpochs : Start(e)

ConfigSpec == ConfigInit /\ [][Next]_vars

\* ------------------------------------------------- a loss that overflows
\* loss = criterion(output, labels) where the arithmetic leaves the finite
\* range: the scalar is inf or nan.
LoopLossOverflow ==
    /\ pc = "t_loss"
    /\ loss' = Criterion(output)
    /\ params' = Collect(params, Reachable(model, optimizer, output, Criterion(output)), None)
    /\ grads' = Collect(grads, Reachable(model, optimizer, output, Criterion(output)), NoGrads)
    /\ opLog' = Append(opLog, "loss")
    /\ pc' = AfterOp(pc)
    /\ UNCHANGED <<model, criterion, optimizer, cur, output,
                   loopState, errors, setToNone, stepped, added, pre, totalSteps, snap, sinceClear>>
    /\ UNCHANGED clearedBefore
    /\ UNCHANGED twin
    /\ UNCHANGED epochs
    /\ nonfinite' = nonfinite \cup {"loss"}
    /\ pairings' = pairings \cup {<<output.kind, criterion>>}

OverflowNext == Next \/ LoopLossOverflow

OverflowSpec == Init /\ [][OverflowNext]_vars

\* ------------------------------------------------ the gradient buffers
\* The buffers of one model under any sequence of backward passes and
\* clears, as the text before the single training step describes them:
\* "When you do multiple backwards passes with the same parameters, the
\* gradients are accumulated."
MaxCalls == 4

AccumInit ==
    /\ pc = "h_idle"
    /\ model = 2
    /\ criterion = "NLL"
    /\ optimizer = [m |-> 2, lr |-> LrWalk]
    /\ \E p0 \in InitParamChoices : params = [m \in ModelIds |-> IF m = 2 THEN p0 ELSE None]
    /\ grads = [m \in ModelIds |-> NoGrads]
    /\ cur = 0
    /\ output = NoOutput
    /\ loss = NoTensor
    /\ running_loss = 0
    /\ epoch = 0
    /\ order = <<>>
    /\ pos = 0
    /\ printed = <<>>
    /\ errors = {}
    /\ setToNone \in BOOLEAN
    /\ opLog = <<>>
    /\ stepped = <<>>
    /\ added = <<>>
    /\ pre = None
    /\ totalSteps = 0
    /\ snap = NoSnap
    /\ sinceClear = <<>>
    /\ clearedBefore = <<>>
    /\ twin = NoTwin
    /\ epochs = Epochs
    /\ nonfinite = {}
    /\ pairings = {}

\* A batch, the forward pass, the loss and loss.backward().
HarnessBackward ==
    /\ pc = "h_idle"
    /\ Len(opLog) < MaxCalls
    /\ \E b \in Batches :
          /\ cur' = b
          /\ output' = Forward(model, b)
          /\ loss' = Criterion(Forward(model, b))
          /\ grads' = [grads EXCEPT ![model] =
                          Accumulate(grads[model], Gradient(params[model], b))]
          /\ sinceClear' = Append(sinceClear, Gradient(params[model], b))
    /\ opLog' = Append(opLog, "backward")
    /\ UNCHANGED <<pc, model, criterion, optimizer, params, loopState, errors,
                   setToNone, stepped, added, pre, totalSteps, snap>>
    /\ clearedBefore' = <<>>
    /\ UNCHANGED twin
    /\ UNCHANGED epochs
    /\ UNCHANGED nonfinite
    /\ pairings' = pairings \cup {<<output'.kind, criterion>>}

\* optimizer.zero_grad()
HarnessClear ==
    /\ pc = "h_idle"
    /\ Len(opLog) < MaxCalls
    /\ grads' = [grads EXCEPT ![optimizer.m] = ZeroGrad(grads[optimizer.m], setToNone)]
    /\ sinceClear' = <<>>
    /\ opLog' = Append(opLog, "zero_grad")
    /\ UNCHANGED <<pc, model, criterion, optimizer, params, cur, output, loss,
                   loopState, errors, setToNone, stepped, added, pre, totalSteps, snap>>
    /\ clearedBefore' = IF LastCall(opLog) = "zero_grad" THEN <<grads[optimizer.m]>> ELSE <<>>
    /\ UNCHANGED twin
    /\ UNCHANGED epochs
    /\ UNCHANGED nonfinite
    /\ UNCHANGED pairings

AccumNext == HarnessBackward \/ HarnessClear

AccumSpec == AccumInit /\ [][AccumNext]_vars

\* ================================================================ claims
StepOrder == <<"zero_grad", "forward", "loss", "backward", "step">>
LoopBody == {"t_next", "t_zero", "t_fwd", "t_loss", "t_bwd", "t_step", "t_acc", "t_print"}
LoopFailed == "c13" \in errors

\* C1: in every training step the five framework calls happen in the order
\* clear, forward, loss, backward, update, none skipped or repeated, and a
\* step's update is done before the next step's clear: the calls of an
\* epoch are that sequence of five, over and over, and a step that has
\* reached its accumulation has made all five.
C1_StepOrder ==
    /\ \A k \in 1..Len(opLog) : opLog[k] = StepOrder[((k - 1) % 5) + 1]
    /\ pc = "t_zero" => Len(opLog) = 5 * (pos - 1)
    /\ pc = "t_acc" => Len(opLog) = 5 * pos
    /\ pc = "t_print" => Len(opLog) = 5 * Len(order)
    /\ pc = "t_build" => opLog = StepOrder

C1_Witness ==
    pc = "t_acc" /\ epoch = Epochs /\ pos = Len(order) /\ Len(opLog) = 5 * NumBatches

\* C2: whenever a backward pass is about to run, every gradient buffer of
\* the parameters it fills is zero or empty, and so the buffers the update
\* then reads hold the gradient of the current batch only.
C2_CleanBeforeBackward ==
    /\ pc \in {"c10", "s_bwd", "t_bwd"} =>
          \A i \in ParamIdx : grads[loss.m][i] \in {None, <<0>>}
    /\ pc \in {"c12b", "t_step"} =>
          /\ loss.m = optimizer.m
          /\ \A i \in ParamIdx :
                grads[optimizer.m][i] = <<Gradient(params[optimizer.m], cur)[i]>>

C2_Witness ==
    /\ pc = "t_bwd" /\ pos = 2
    /\ \E i \in ParamIdx : grads[loss.m][i] = <<0>>
    /\ \E i \in ParamIdx : Gradient(pre, order[1])[i] # 0

\* C3: in each epoch every batch the traversal produces gets exactly one
\* training step, in the order produced.
C3_EachBatchOnce ==
    /\ pc \in LoopBody => Len(stepped) <= Len(order)
                          /\ stepped = SubSeq(order, 1, Len(stepped))
    /\ pc \in {"t_acc", "t_next", "t_print"} => Len(stepped) = pos
    /\ pc = "t_print" =>
          /\ stepped = order
          /\ \A b \in Batches : Cardinality({k \in 1..Len(stepped) : stepped[k] = b}) = 1

C3_Witness ==
    pc = "t_print" /\ epoch = 2 /\ stepped = order /\ Len(stepped) = NumBatches
    /\ order[1] # 1

\* C4: the value reported for an epoch is the sum of the losses added in
\* that epoch alone, over len(trainloader), which is the number of losses
\* added.
C4_MeanLoss ==
    (pc = "t_epoch" /\ epoch >= 1) =>
        /\ Len(printed) >= 1
        /\ printed[Len(printed)] = [num |-> SumSeq(added), den |-> Len(added)]
        /\ Len(added) = Len(stepped)

C4_Witness ==
    /\ pc = "t_epoch" /\ epoch = 2 /\ Len(printed) = 2
    /\ printed[1].num > 0 /\ printed[2].num > 0
    /\ printed[2] = [num |-> SumSeq(added), den |-> NumBatches]

\* C5: one report per completed epoch and nothing else: while epoch k is
\* being stepped k-1 reports are out, once it is complete k are, and a run
\* that completes has printed Epochs reports.
C5_OneReportPerEpoch ==
    /\ pc \in LoopBody => Len(printed) = epoch - 1
    /\ pc = "t_epoch" => Len(printed) = epoch
    /\ (pc \in {"c14", "done"} /\ ~LoopFailed) => Len(printed) = Epochs
    /\ pc \notin (LoopBody \cup {"t_epoch", "c14", "done"}) => printed = <<>>

C5_Witness ==
    pc = "done" /\ ~LoopFailed /\ Len(printed) = Epochs

\* C6: a run in which no step fails terminates, after exactly Epochs
\* traversals and Epochs * len(trainloader) training steps.
C6_Terminates ==
    /\ <>(pc = "done")
    /\ [](pc \in {"c14", "done"} /\ ~LoopFailed =>
            epoch = Epochs /\ totalSteps = Epochs * LenTrainloader)
    /\ [](totalSteps <= Epochs * LenTrainloader)

C6_Witness ==
    pc = "done" /\ ~LoopFailed /\ epoch = Epochs /\ totalSteps = Epochs * NumBatches

\* C7: when the forward pass, the loss, the backward pass or the update of
\* a step raises, the loop is over: control has left the cell, no call, no
\* step, no batch, no epoch and no report has followed since.
C7_FailureIsFatal ==
    LoopFailed =>
        /\ pc \in {"c14", "done"}
        /\ opLog = snap.log
        /\ totalSteps = snap.steps
        /\ epoch = snap.epoch /\ pos = snap.pos
        /\ printed = snap.printed /\ Len(printed) = snap.epoch - 1
        /\ params[model] = snap.params

C7_Witness ==
    LoopFailed /\ pc = "done" /\ snap.op = "t_bwd" /\ snap.epoch = 2 /\ snap.pos = 1

\* C8: the update of a training step leaves each parameter entry at its
\* value before the step minus the learning rate times the gradient of the
\* step's own batch.
C8_PlainSGD ==
    /\ pc = "t_acc" =>
          params[model] = [i \in ParamIdx |-> pre[i] - LrLoop * Gradient(pre, cur)[i]]
    /\ pc = "t_build" =>
          params[model] = [i \in ParamIdx |-> pre[i] - LrWalk * Gradient(pre, cur)[i]]

C8_Witness ==
    pc = "t_acc" /\ pos = 2 /\ \A i \in ParamIdx : params[model][i] # pre[i]

\* The sum, entry i, of the gradients added since the last clear.
GradSum(i) == SumSeq([k \in 1..Len(sinceClear) |-> sinceClear[k][i]])

C10_OnlyUpdateChangesParams ==
    [][/\ \A m \in ModelIds :
             (params[m] # None /\ params'[m] # params[m]) =>
                 \/ pc \in {"c12b", "t_step"} /\ m = optimizer.m
                 \/ params'[m] = None /\ m # model'
       /\ \A m \in ModelIds :
             (params[m] = None /\ params'[m] # None) =>
                 pc \in {"c2", "c9", "t_build"} /\ m = model' /\ m # model
       /\ pc \in LoopBody => model' = model /\ params'[model] # None
       /\ totalSteps' # totalSteps => pc = "t_step" /\ totalSteps' = totalSteps + 1
       /\ (pc \in LoopBody /\ params'[model] # params[model]) =>
             totalSteps' = totalSteps + 1]_vars

C10_Witness ==
    /\ pc = "t_next" /\ epoch = 2 /\ pos = 0 /\ totalSteps = NumBatches
    /\ params[model] \notin InitParamChoices

\* The gradient of batch b at parameters p, as the buffers hold it.
Held(p, b) == [i \in ParamIdx |-> <<Gradient(p, b)[i]>>]

\* C11: once a step's backward pass has filled the buffers, they hold that
\* step's gradient and nothing else through the update, the accumulation,
\* the report and the start of the next epoch, up to the next step's clear;
\* the same after the single step of the cells before the loop.
C11_BuffersKept ==
    /\ (pc \in {"t_acc", "t_next", "t_print", "t_epoch"} /\ totalSteps >= 1) =>
          grads[model] = Held(pre, cur)
    /\ (pc = "t_zero" /\ totalSteps >= 1) =>
          /\ Len(sinceClear) = 1
          /\ grads[model] = [i \in ParamIdx |-> <<sinceClear[1][i]>>]
    /\ pc = "t_build" => grads[model] = Held(pre, cur)

C11_Witness ==
    /\ pc = "t_zero" /\ epoch = 2 /\ pos = 1 /\ totalSteps = NumBatches
    /\ Len(printed) = 1
    /\ \E i \in ParamIdx : grads[model][i] \notin {None, <<0>>}

C15_NonFiniteAborts ==
    /\ ~(pc = "t_acc" /\ "loss" \in nonfinite)
    /\ "running_loss" \notin nonfinite
    /\ "printed" \notin nonfinite

\* C15, amended: a loss that is not finite is not detected.  Its backward
\* pass fills the buffers, the update is applied with them, the value is
\* added to running_loss and the epoch's report is made from it; all later
\* losses are computed from parameters that are not finite; and unless a
\* statement raises, the run completes every step and every report.
C15_NonFiniteSpreads ==
    /\ (pc = "t_step" /\ "loss" \in nonfinite) => "grads" \in nonfinite
    /\ (pc = "t_acc" /\ "loss" \in nonfinite) => "params" \in nonfinite
    /\ (pc \in {"t_next", "t_print"} /\ pos >= 1 /\ "loss" \in nonfinite) =>
          "running_loss" \in nonfinite
    /\ (pc = "t_epoch" /\ epoch >= 1 /\ "loss" \in nonfinite) => "printed" \in nonfinite
    /\ (pc \in {"t_bwd", "t_step", "t_acc"} /\ "params" \in nonfinite) =>
          "loss" \in nonfinite
    /\ (pc \in {"c14", "done"} /\ ~LoopFailed /\ nonfinite # {}) =>
          /\ totalSteps = Epochs * LenTrainloader
          /\ Len(printed) = Epochs
          /\ "printed" \in nonfinite

C15_Witness ==
    /\ pc = "done" /\ ~LoopFailed
    /\ nonfinite = {"loss", "grads", "params", "running_loss", "printed"}
    /\ totalSteps = Epochs * NumBatches /\ Len(printed) = Epochs

C18_LossBeforeUpdate ==
    /\ pc = "t_acc" => loss.val = LossValue(pre, cur) /\ Item(loss) = LossValue(pre, cur)
    /\ (pc = "t_next" /\ pos >= 1) =>
          /\ Len(added) = pos
          /\ added[pos] = LossValue(pre, cur)
          /\ running_loss = SumSeq(added)

C18_Witness ==
    /\ pc = "t_next" /\ pos = 2 /\ epoch = 2
    /\ added[pos] = LossValue(pre, cur)
    /\ LossValue(params[model], cur) # LossValue(pre, cur)

\* C19: every clear and every update acts on the parameters of the model
\* the name model is bound to, which is the model whose loss is
\* back-propagated: after each rebinding of model the optimizer in use has
\* been built from the new model.
C19_OptimizerOfCurrentModel ==
    /\ pc \in {"s_zero", "s_fwd", "s_loss", "s_bwd", "c12b"} =>
          optimizer.m = model /\ optimizer.lr = LrWalk
    /\ pc \in (LoopBody \cup {"t_epoch"}) =>
          optimizer.m = model /\ optimizer.lr = LrLoop
    /\ pc \in {"s_bwd", "c12b", "t_bwd", "t_step", "t_acc"} =>
          loss.m = model /\ output.m = model
    /\ pc \in {"c10", "c11"} => loss.m = model

C19_Witness ==
    /\ pc = "t_step" /\ epoch = 1 /\ pos = 1
    /\ model = 3 /\ optimizer.m = 3 /\ loss.m = 3
    /\ "cEx" \in errors

\* The pairs of output convention and loss that belong together.
Matching == {<<"raw", "CE">>, <<"logp", "NLL">>}

\* C20: every loss computation, in the cells and in every loop step, gives
\* raw scores to the cross-entropy loss and log-softmax outputs to the
\* negative log-likelihood loss, the exercise cell having failed before it
\* rebound any name.
C20_LossMatchesOutput ==
    /\ pairings \subseteq Matching
    /\ pc \in {"s_loss", "t_loss"} => <<output.kind, criterion>> \in Matching
    /\ pc = "c9" => "cEx" \in errors /\ model = 1 /\ criterion = "CE" /\ loss.m = 1

C20_Witness ==
    /\ pc = "t_bwd" /\ epoch = 2
    /\ pairings = Matching
    /\ "cEx" \in errors

====
